---- MODULE Spec2Model ----
(***************************************************************************)
(* The reducer-driven state container of the repository: the timers        *)
(* context (timers-context.tsx, reproduced in                              *)
(* src/05-advanced-type-safe-state/src/components/Header.tsx) and the      *)
(* consumer surface (getState / dispatch / subscribe) of the store that    *)
(* src/07-redux/src/store/store.ts creates.                                *)
(***************************************************************************)
EXTENDS Integers, Sequences, FiniteSets, TLC

VARIABLES
    provided,     \* a TimersContextProvider is rendered above the consumer
    state,        \* timersState, the state useReducer holds
    ctx,          \* the value of TimersContext the consumer reads
    hook,         \* outcome of the consumer's last useTimersContext() call
    snapshot,     \* what the consumer's last getState() returned
    listeners,    \* subscribed listeners, in subscription order
    pc,           \* "idle", or "notifying" while a dispatch is running
    pending,      \* listeners the running dispatch has still to notify
    notified,     \* notifications the running dispatch has made, in order
    prev,         \* history: the state the last dispatch started from
    lastAction,   \* history: the action of the last dispatch
    subscribed,   \* history: the listeners whose last call was subscribe
    store,        \* the state of the redux store: one slice, cart
    cartPrev,     \* history: the store state its last dispatch started from
    cartLast,     \* history: the action of its last dispatch
    cartFault,    \* what its last dispatch threw, "" when nothing
    cartPrev2,    \* history: the store state before its last two dispatches
    cartLast2,    \* history: the action of the dispatch before the last
    cartCount,    \* history: per id, addToCart dispatches minus the
                  \* removeFromCart dispatches that did not throw
    trace,        \* history: the actions dispatched to the timers reducer
    heapObjs,     \* the TimersState objects allocated so far, by reference
    heapArrs,     \* the timers arrays allocated so far, by reference
    heapCur,      \* reference of the TimersState object useReducer holds
    heapHeld,     \* the object a consumer was handed, and what it then held
    getCalls,     \* the calls of get(url): where each stands, what fetch
                  \* gave it, and how its promise settled
    formProps,    \* the children and the onSave of the rendered Form
    formValues,   \* the value of each input of the Form
    formLog,      \* what the last submit of the Form did, in order
    formAtSubmit, \* history: the values when the Form was last submitted
    formSubmits,  \* history: the submits of the Form
    formSaves,    \* history: the calls of onSave
    goalValues,   \* the values of the two inputs of NewGoal
    goalLog,      \* what the last submit of NewGoal did, in order
    goalAtSubmit, \* history: the values when NewGoal was last submitted
    goalCalls     \* history: the arguments of each call of onAddGoal

timersVars == <<provided, state, ctx, hook, snapshot, listeners, pc, pending,
                notified, prev, lastAction, subscribed>>

cartVars == <<store, cartPrev, cartLast, cartFault, cartPrev2, cartLast2,
              cartCount>>

heapVars == <<heapObjs, heapArrs, heapCur, heapHeld>>

httpVars == <<getCalls>>

formVars == <<formProps, formValues, formLog, formAtSubmit, formSubmits,
              formSaves>>

goalVars == <<goalValues, goalLog, goalAtSubmit, goalCalls>>

vars == <<timersVars, cartVars, trace, heapVars, httpVars, formVars,
          goalVars>>

-----------------------------------------------------------------------------
(* Bounds *)

MaxTimers == 2

MaxListeners == 2

\* The largest quantity of one cart item
MaxQuantity == 2

\* The longest sequence of actions replayed
MaxReplay == 4

\* The most TimersState objects allocated
MaxObjects == 4

\* The most calls of get
MaxCalls == 2

\* The most submits of a form
MaxSubmits == 2

-----------------------------------------------------------------------------
(* Data *)

\* type Timer = { name: string; duration: number }
Timer == {[name |-> "a", duration |-> 5], [name |-> "b", duration |-> 3]}

\* A payload is a Timer, structurally: an object with more properties than
\* name and duration is accepted as well.
Payloads == Timer \cup {[name |-> "a", duration |-> 5, id |-> "t1"]}

\* type Action = StartTimersAction | StopTimersAction | AddTimersAction
Action ==
    {[type |-> "START_TIMERS"], [type |-> "STOP_TIMERS"]}
        \cup [type : {"ADD_TIMER"}, payload : Payloads]

\* Objects with a type the reducer does not recognize.
Unrecognized ==
    {[type |-> "RESET_TIMERS"],
     [type |-> "REMOVE_TIMER", payload |-> [name |-> "a", duration |-> 5]]}

AnyAction == Action \cup Unrecognized

NoAction == [type |-> "@@NONE"]

\* Variant of initialState with the flag of the first draft of the provider.
initialState_Stopped == [isRunning |-> FALSE, timers |-> <<>>]

\* const initialState: TimersState = { isRunning: true, timers: [] }
initialState == [isRunning |-> TRUE, timers |-> <<>>]

\* createContext<TimersContextValue | null>(null)
NullCtx == [tag |-> "null"]

-----------------------------------------------------------------------------
(* The transition function *)

\* Variants of timersReducer, each with one slip.

\* START_TIMERS flips the flag instead of setting it.
timersReducer_StartToggles(s, action) ==
    IF action.type = "START_TIMERS"
    THEN [s EXCEPT !.isRunning = ~s.isRunning]
    ELSE IF action.type = "STOP_TIMERS"
    THEN [s EXCEPT !.isRunning = FALSE]
    ELSE IF action.type = "ADD_TIMER"
    THEN [s EXCEPT !.timers =
              Append(s.timers, [name     |-> action.payload.name,
                                duration |-> action.payload.duration])]
    ELSE s

\* STOP_TIMERS builds its result without spreading the old state.
timersReducer_StopDropsTimers(s, action) ==
    IF action.type = "START_TIMERS"
    THEN [s EXCEPT !.isRunning = TRUE]
    ELSE IF action.type = "STOP_TIMERS"
    THEN [isRunning |-> FALSE, timers |-> <<>>]
    ELSE IF action.type = "ADD_TIMER"
    THEN [s EXCEPT !.timers =
              Append(s.timers, [name     |-> action.payload.name,
                                duration |-> action.payload.duration])]
    ELSE s

\* ADD_TIMER puts the new timer in front of the old ones.
timersReducer_AddInFront(s, action) ==
    IF action.type = "START_TIMERS"
    THEN [s EXCEPT !.isRunning = TRUE]
    ELSE IF action.type = "STOP_TIMERS"
    THEN [s EXCEPT !.isRunning = FALSE]
    ELSE IF action.type = "ADD_TIMER"
    THEN [s EXCEPT !.timers =
              <<[name     |-> action.payload.name,
                 duration |-> action.payload.duration]>> \o s.timers]
    ELSE s

\* ADD_TIMER builds the new list without spreading the old one.
timersReducer_AddReplaces(s, action) ==
    IF action.type = "START_TIMERS"
    THEN [s EXCEPT !.isRunning = TRUE]
    ELSE IF action.type = "STOP_TIMERS"
    THEN [s EXCEPT !.isRunning = FALSE]
    ELSE IF action.type = "ADD_TIMER"
    THEN [s EXCEPT !.timers =
              <<[name     |-> action.payload.name,
                 duration |-> action.payload.duration]>>]
    ELSE s

\* The fall-through returns the initial state instead of the given one.
timersReducer_DefaultResets(s, action) ==
    IF action.type = "START_TIMERS"
    THEN [s EXCEPT !.isRunning = TRUE]
    ELSE IF action.type = "STOP_TIMERS"
    THEN [s EXCEPT !.isRunning = FALSE]
    ELSE IF action.type = "ADD_TIMER"
    THEN [s EXCEPT !.timers =
              Append(s.timers, [name     |-> action.payload.name,
                                duration |-> action.payload.duration])]
    ELSE initialState

\* STOP_TIMERS returns the flag alone.
timersReducer_StopOmitsTimers(s, action) ==
    IF action.type = "START_TIMERS"
    THEN [s EXCEPT !.isRunning = TRUE]
    ELSE IF action.type = "STOP_TIMERS"
    THEN [isRunning |-> FALSE]
    ELSE IF action.type = "ADD_TIMER"
    THEN [s EXCEPT !.timers =
              Append(s.timers, [name     |-> action.payload.name,
                                duration |-> action.payload.duration])]
    ELSE s

\* function timersReducer(state: TimersState, action: Action): TimersState
timersReducer(s, action) ==
    IF action.type = "START_TIMERS"
    THEN [s EXCEPT !.isRunning = TRUE]
    ELSE IF action.type = "STOP_TIMERS"
    THEN [s EXCEPT !.isRunning = FALSE]
    ELSE IF action.type = "ADD_TIMER"
    THEN [s EXCEPT !.timers =
              Append(s.timers, [name     |-> action.payload.name,
                                duration |-> action.payload.duration])]
    ELSE s

\* The one read in timersReducer that can throw: action.payload.name, when
\* an ADD_TIMER action carries no payload.
timersReducerThrows(action) ==
    action.type = "ADD_TIMER" /\ "payload" \notin DOMAIN action

\* type TimersState = { isRunning: boolean; timers: Timer[] }
IsTimersState(s) ==
    /\ DOMAIN s = {"isRunning", "timers"}
    /\ s.isRunning \in BOOLEAN
    /\ DOMAIN s.timers = 1 .. Len(s.timers)
    /\ \A i \in 1 .. Len(s.timers) : s.timers[i] \in Timer

-----------------------------------------------------------------------------
(* The provider and the accessor *)

\* const ctx: TimersContextValue = { timers: timersState.timers,
\*                                   isRunning: timersState.isRunning, ... }
ProviderValue(timersState) ==
    [tag |-> "ctx", timers |-> timersState.timers,
     isRunning |-> timersState.isRunning]

\* Variant of useTimersContext without the null check.
useTimersContext_NoNullCheck(timersCtx) ==
    [outcome |-> "returned", error |-> "", value |-> timersCtx]

\* useTimersContext(): throws when the context value is null
useTimersContext(timersCtx) ==
    IF timersCtx = NullCtx
    THEN [outcome |-> "threw",
          error   |-> "TimersContext is null - that should not be the case!",
          value   |-> NullCtx]
    ELSE [outcome |-> "returned", error |-> "", value |-> timersCtx]

\* The consumer has not called the accessor yet.
NotCalled == [outcome |-> "none", error |-> "", value |-> NullCtx]

-----------------------------------------------------------------------------
(* The transition function on objects: what it allocates and what it shares *)

\* The value of the TimersState object with reference ref
Deref(objs, arrs, ref) ==
    [isRunning |-> objs[ref].isRunning, timers |-> arrs[objs[ref].timers]]

\* Variant of timersReducerHeap whose ADD_TIMER pushes onto state.timers
\* and returns the state it was given.
timersReducerHeap_PushesInPlace(objs, arrs, ref, action) ==
    LET s == objs[ref]
    IN  IF action.type = "START_TIMERS"
        THEN [objs |-> Append(objs, [s EXCEPT !.isRunning = TRUE]),
              arrs |-> arrs, ref |-> Len(objs) + 1]
        ELSE IF action.type = "STOP_TIMERS"
        THEN [objs |-> Append(objs, [s EXCEPT !.isRunning = FALSE]),
              arrs |-> arrs, ref |-> Len(objs) + 1]
        ELSE IF action.type = "ADD_TIMER"
        THEN [objs |-> objs,
              arrs |-> [arrs EXCEPT ![s.timers] =
                           Append(@, [name     |-> action.payload.name,
                                      duration |-> action.payload.duration])],
              ref  |-> ref]
        ELSE [objs |-> objs, arrs |-> arrs, ref |-> ref]

\* timersReducer, object by object: { ...state, isRunning } is a new object
\* that shares the timers array of the old one, [...state.timers, item] is
\* a new array in a new object, and the last return hands back the object
\* it was given.
timersReducerHeap(objs, arrs, ref, action) ==
    LET s == objs[ref]
    IN  IF action.type = "START_TIMERS"
        THEN [objs |-> Append(objs, [s EXCEPT !.isRunning = TRUE]),
              arrs |-> arrs, ref |-> Len(objs) + 1]
        ELSE IF action.type = "STOP_TIMERS"
        THEN [objs |-> Append(objs, [s EXCEPT !.isRunning = FALSE]),
              arrs |-> arrs, ref |-> Len(objs) + 1]
        ELSE IF action.type = "ADD_TIMER"
        THEN [objs |-> Append(objs, [s EXCEPT !.timers = Len(arrs) + 1]),
              arrs |-> Append(arrs,
                           Append(arrs[s.timers],
                                  [name     |-> action.payload.name,
                                   duration |-> action.payload.duration])),
              ref  |-> Len(objs) + 1]
        ELSE [objs |-> objs, arrs |-> arrs, ref |-> ref]

\* No object was handed to the consumer yet.
NotHeld == [ref |-> 0, value |-> initialState]

\* dispatch(action): useReducer holds the object the reducer returned
HeapDispatch ==
    \E action \in AnyAction :
        LET r == timersReducerHeap(heapObjs, heapArrs, heapCur, action)
        IN  /\ Len(heapObjs) < MaxObjects
            /\ heapObjs' = r.objs
            /\ heapArrs' = r.arrs
            /\ heapCur' = r.ref
            /\ UNCHANGED <<heapHeld, timersVars, cartVars, trace, httpVars,
                           formVars, goalVars>>

\* A consumer is handed the current state object.
HeapGetState ==
    /\ heapHeld' = [ref   |-> heapCur,
                    value |-> Deref(heapObjs, heapArrs, heapCur)]
    /\ UNCHANGED <<heapObjs, heapArrs, heapCur, timersVars, cartVars, trace,
                   httpVars, formVars, goalVars>>

-----------------------------------------------------------------------------
(* get(url) of http.ts *)

CallIds == 1 .. MaxCalls

Urls == {"/posts", "/users"}

\* The bodies a response carries: two JSON texts, a page that is no JSON,
\* and nothing
Bodies == {"[1,2]", "null", "<html>", ""}

Statuses == {200, 201, 404, 500}

\* What fetch resolves with: ok is true for the statuses 200 to 299
Responses ==
    {[status |-> st, ok |-> (st >= 200 /\ st =< 299), body |-> b] :
        st \in Statuses, b \in Bodies}

NoResponse == [status |-> 0, ok |-> FALSE, body |-> ""]

\* What fetch rejects with when the request cannot be made
NetworkError == "TypeError: Failed to fetch"

\* What response.json() rejects with when the body is no JSON text
SyntaxError == "SyntaxError"

NoValue == [json |-> "undefined", length |-> 0]

\* JSON.parse of the body, as response.json() does it: the value of a JSON
\* text, and a SyntaxError for any other text
JSONParse(text) ==
    IF text = "[1,2]"
    THEN [threw |-> "", value |-> [json |-> "array", length |-> 2]]
    ELSE IF text = "null"
    THEN [threw |-> "", value |-> [json |-> "null", length |-> 0]]
    ELSE [threw |-> SyntaxError, value |-> NoValue]

\* The promise get returns
Pending == [state |-> "pending", value |-> NoValue, reason |-> ""]

Fulfilled(value) == [state |-> "fulfilled", value |-> value, reason |-> ""]

Rejected(reason) == [state |-> "rejected", value |-> NoValue,
                     reason |-> reason]

NotCalledGet ==
    [pc |-> "notCalled", url |-> "", fetched |-> "pending",
     response |-> NoResponse, bodyUsed |-> FALSE, promise |-> Pending]

\* Variant of afterFetch that calls response.json() whatever response.ok is.
afterFetch_NoOkCheck(call, response) ==
    [call EXCEPT !.pc = "awaitJson", !.fetched = "resolved",
                 !.response = response, !.bodyUsed = TRUE]

\* Variant of afterFetch that starts reading the body before it looks at
\* response.ok.
afterFetch_ReadsBodyFirst(call, response) ==
    IF ~response.ok
    THEN [call EXCEPT !.pc = "done", !.fetched = "resolved",
                      !.response = response, !.bodyUsed = TRUE,
                      !.promise = Rejected("Failed to fetch data")]
    ELSE [call EXCEPT !.pc = "awaitJson", !.fetched = "resolved",
                      !.response = response, !.bodyUsed = TRUE]

\* What get does when fetch has resolved, up to its next await: throw when
\* the response is not ok, and call response.json() otherwise
afterFetch(call, response) ==
    IF ~response.ok
    THEN [call EXCEPT !.pc = "done", !.fetched = "resolved",
                      !.response = response,
                      !.promise = Rejected("Failed to fetch data")]
    ELSE [call EXCEPT !.pc = "awaitJson", !.fetched = "resolved",
                      !.response = response, !.bodyUsed = TRUE]

\* Variant of afterJson that returns undefined when the body is no JSON.
afterJson_SwallowsSyntaxError(call) ==
    LET parsed == JSONParse(call.response.body)
    IN  [call EXCEPT !.pc = "done",
                     !.promise = IF parsed.threw = ""
                                 THEN Fulfilled(parsed.value)
                                 ELSE Fulfilled(NoValue)]

\* What get does when response.json() has settled: return the data, or
\* throw what the await threw
afterJson(call) ==
    LET parsed == JSONParse(call.response.body)
    IN  [call EXCEPT !.pc = "done",
                     !.promise = IF parsed.threw = ""
                                 THEN Fulfilled(parsed.value)
                                 ELSE Rejected(parsed.threw)]

HttpFrame ==
    UNCHANGED <<timersVars, cartVars, trace, heapVars, formVars, goalVars>>

\* get(url) is called: fetch(url) is started and get awaits it
GetCall ==
    \E c \in CallIds, url \in Urls :
        /\ getCalls[c].pc = "notCalled"
        /\ getCalls' = [getCalls EXCEPT ![c] =
                           [NotCalledGet EXCEPT !.pc = "awaitFetch",
                                                !.url = url]]
        /\ HttpFrame

\* fetch resolves with a response, and get runs on to its next await
FetchResolves ==
    \E c \in CallIds, response \in Responses :
        /\ getCalls[c].pc = "awaitFetch"
        /\ getCalls' = [getCalls EXCEPT ![c] = afterFetch(@, response)]
        /\ HttpFrame

\* fetch rejects, and the await in get throws its reason
FetchRejects ==
    \E c \in CallIds :
        /\ getCalls[c].pc = "awaitFetch"
        /\ getCalls' = [getCalls EXCEPT ![c] =
                           [@ EXCEPT !.pc = "done", !.fetched = "rejected",
                                     !.promise = Rejected(NetworkError)]]
        /\ HttpFrame

\* response.json() settles
JsonSettles ==
    \E c \in CallIds :
        /\ getCalls[c].pc = "awaitJson"
        /\ getCalls' = [getCalls EXCEPT ![c] = afterJson(@)]
        /\ HttpFrame

-----------------------------------------------------------------------------
(* The Form component and the App that renders it *)

\* The ids of the two inputs App puts in the Form
FieldIds == {"name", "age"}

\* What a user has typed into an input
Texts == {"", "Ann", "41"}

\* The name attribute of each input, "" for none.  The inputs of App have
\* an id and no name; the other children are the same inputs with their id
\* as name.
AppChildren == [f \in FieldIds |-> ""]

NamedChildren == [f \in FieldIds |-> f]

\* The onSave of App, which calls clear() on the form handle, and an onSave
\* that leaves the form alone
OnSaves == {"handleSave", "other"}

NotRendered == [children |-> AppChildren, onSave |-> "none"]

\* An event of a submit and the data it carried
Event(ev, data) == [ev |-> ev, data |-> data]

NoData == [n \in {} |-> ""]

\* Object.fromEntries(new FormData(form)): the value of each input that has
\* a name, under that name
FormData(children, values) ==
    [n \in {children[f] : f \in FieldIds} \ {""} |->
        values[CHOOSE f \in FieldIds : children[f] = n]]

\* form.reset(): each input back to its default value, which is empty for
\* inputs rendered without one
reset(values) == [f \in DOMAIN values |-> ""]

\* onSave(data): what it does to the values, and what it logs.  handleSave
\* of App calls customForm.current?.clear(), and clear() resets the form.
onSave(handler, values, data) ==
    IF handler = "handleSave"
    THEN [values |-> reset(values),
          log    |-> <<Event("onSave", data), Event("clear", NoData),
                       Event("onSaveReturned", NoData)>>]
    ELSE [values |-> values,
          log    |-> <<Event("onSave", data),
                       Event("onSaveReturned", NoData)>>]

\* Variant of handleSubmit that resets the form before it collects the
\* values.
handleSubmit_ResetsFirst(props, values) ==
    LET data  == FormData(props.children, reset(values))
        saved == onSave(props.onSave, reset(values), data)
    IN  [values |-> saved.values,
         log    |-> <<Event("preventDefault", NoData),
                      Event("reset", NoData),
                      Event("FormData", data)>> \o saved.log]

\* Form.handleSubmit(event): preventDefault, collect the data, onSave(data),
\* reset
handleSubmit(props, values) ==
    LET data  == FormData(props.children, values)
        saved == onSave(props.onSave, values, data)
    IN  [values |-> reset(saved.values),
         log    |-> <<Event("preventDefault", NoData),
                      Event("FormData", data)>>
                    \o saved.log \o <<Event("reset", NoData)>>]

FormFrame ==
    UNCHANGED <<timersVars, cartVars, trace, heapVars, httpVars, goalVars>>

\* <Form onSave={...} ref={customForm}> ... </Form> is rendered
RenderForm ==
    \E children \in {AppChildren, NamedChildren}, handler \in OnSaves :
        /\ formProps = NotRendered
        /\ formProps' = [children |-> children, onSave |-> handler]
        /\ UNCHANGED <<formValues, formLog, formAtSubmit, formSubmits,
                       formSaves>>
        /\ FormFrame

\* The user types into an input of the Form
TypeIntoForm ==
    \E f \in FieldIds, text \in Texts :
        /\ formProps # NotRendered
        /\ formValues' = [formValues EXCEPT ![f] = text]
        /\ UNCHANGED <<formProps, formLog, formAtSubmit, formSubmits,
                       formSaves>>
        /\ FormFrame

\* The user submits the Form
SubmitForm ==
    LET result == handleSubmit(formProps, formValues)
    IN  /\ formProps # NotRendered
        /\ formSubmits < MaxSubmits
        /\ formValues' = result.values
        /\ formLog' = result.log
        /\ formAtSubmit' = formValues
        /\ formSubmits' = formSubmits + 1
        /\ formSaves' = formSaves
               + Cardinality({i \in 1 .. Len(result.log) :
                                 result.log[i].ev = "onSave"})
        /\ UNCHANGED formProps
        /\ FormFrame

-----------------------------------------------------------------------------
(* The NewGoal component *)

\* What a user has typed into the goal or the summary input
GoalTexts == {"", "Learn TS", "in a week"}

\* Variant of NewGoal_handleSubmit that reads the inputs after the reset.
NewGoal_handleSubmit_ReadsAfterReset(values) ==
    LET cleared        == reset(values)
        enteredGoal    == cleared.goal
        enteredSummary == cleared.summary
        entered        == [goal |-> enteredGoal, summary |-> enteredSummary]
    IN  [values |-> cleared,
         log    |-> <<Event("preventDefault", NoData),
                      Event("reset", NoData),
                      Event("read", entered),
                      Event("onAddGoal", entered)>>]

\* NewGoal.handleSubmit(event): preventDefault, read the two inputs, reset
\* the form, onAddGoal(enteredGoal, enteredSummary)
NewGoal_handleSubmit(values) ==
    LET enteredGoal    == values.goal
        enteredSummary == values.summary
        entered        == [goal |-> enteredGoal, summary |-> enteredSummary]
    IN  [values |-> reset(values),
         log    |-> <<Event("preventDefault", NoData),
                      Event("read", entered),
                      Event("reset", NoData),
                      Event("onAddGoal", entered)>>]

GoalFrame ==
    UNCHANGED <<timersVars, cartVars, trace, heapVars, httpVars, formVars>>

\* The user types into an input of NewGoal
TypeIntoGoal ==
    \E f \in {"goal", "summary"}, text \in GoalTexts :
        /\ goalValues' = [goalValues EXCEPT ![f] = text]
        /\ UNCHANGED <<goalLog, goalAtSubmit, goalCalls>>
        /\ GoalFrame

\* The user submits NewGoal
SubmitGoal ==
    LET result == NewGoal_handleSubmit(goalValues)
        called == SelectSeq(result.log, LAMBDA e : e.ev = "onAddGoal")
    IN  /\ Len(goalCalls) < MaxSubmits
        /\ goalValues' = result.values
        /\ goalLog' = result.log
        /\ goalAtSubmit' = goalValues
        /\ goalCalls' = goalCalls
               \o [i \in 1 .. Len(called) |-> called[i].data]
        /\ GoalFrame

-----------------------------------------------------------------------------
(* The cart slice and the store *)

\* const initialState: CartState = { items: [] }
cartInitialState == [items |-> <<>>]

\* configureStore({ reducer: { cart: cartSlice.reducer } })
storeInitialState == [cart |-> cartInitialState]

\* PayloadAction<{ id: string; title: string; price: number }>: three
\* products, and the first of them again at another price.
CartPayloads ==
    {[id |-> "p1", title |-> "Shirt", price |-> 10],
     [id |-> "p2", title |-> "Shoes", price |-> 20],
     [id |-> "p3", title |-> "Scarf", price |-> 30],
     [id |-> "p1", title |-> "Shirt", price |-> 12]}

\* PayloadAction<string>: the ids of the products, and one of no product
CartIds == {"p1", "p2", "p3", "p9"}

\* What reading a property of undefined throws
TypeError == "TypeError"

\* Array.prototype.findIndex with (item) => item.id === id: the index,
\* counted from 0, of the first item with that id, and -1 when there is none
findIndex(items, id) ==
    IF \E i \in 1 .. Len(items) : items[i].id = id
    THEN (CHOOSE i \in 1 .. Len(items) :
              /\ items[i].id = id
              /\ \A j \in 1 .. i - 1 : items[j].id # id) - 1
    ELSE -1

\* items[index] of a JavaScript array, index counted from 0: no item
\* (undefined) outside 0 .. length - 1
HasItemAt(items, index) == index >= 0 /\ index < Len(items)

\* items.splice(index, 1) for an index inside the array
splice1(items, index) ==
    SubSeq(items, 1, index) \o SubSeq(items, index + 2, Len(items))

\* { ...payload, quantity: 1 }
WithQuantityOne(payload) ==
    [f \in DOMAIN payload \cup {"quantity"} |->
        IF f = "quantity" THEN 1 ELSE payload[f]]

\* Variant of addToCart that pushes without looking for the id.
addToCart_AlwaysPushes(items, payload) ==
    [items |-> Append(items, WithQuantityOne(payload)), threw |-> ""]

\* Variant of addToCart with unshift in place of push: a new item goes in
\* front.
addToCart_Unshifts(items, payload) ==
    LET itemIndex == findIndex(items, payload.id)
    IN  IF itemIndex >= 0
        THEN [items |-> [items EXCEPT ![itemIndex + 1].quantity = @ + 1],
              threw |-> ""]
        ELSE [items |-> <<WithQuantityOne(payload)>> \o items,
              threw |-> ""]

\* reducers.addToCart(state, action): the items after it, and what it threw
addToCart(items, payload) ==
    LET itemIndex == findIndex(items, payload.id)
    IN  IF itemIndex >= 0
        THEN [items |-> [items EXCEPT ![itemIndex + 1].quantity = @ + 1],
              threw |-> ""]
        ELSE [items |-> Append(items, WithQuantityOne(payload)),
              threw |-> ""]

\* Variant of removeFromCart with items.splice(itemIndex): no delete count,
\* so the items after the removed one go too.
removeFromCart_SpliceToEnd(items, id) ==
    LET itemIndex == findIndex(items, id)
    IN  IF ~HasItemAt(items, itemIndex)
        THEN [items |-> items, threw |-> TypeError]
        ELSE IF items[itemIndex + 1].quantity = 1
        THEN [items |-> SubSeq(items, 1, itemIndex), threw |-> ""]
        ELSE [items |-> [items EXCEPT ![itemIndex + 1].quantity = @ - 1],
              threw |-> ""]

\* Variant of removeFromCart that returns when the id is not in the cart.
removeFromCart_IgnoresMissing(items, id) ==
    LET itemIndex == findIndex(items, id)
    IN  IF ~HasItemAt(items, itemIndex)
        THEN [items |-> items, threw |-> ""]
        ELSE IF items[itemIndex + 1].quantity = 1
        THEN [items |-> splice1(items, itemIndex), threw |-> ""]
        ELSE [items |-> [items EXCEPT ![itemIndex + 1].quantity = @ - 1],
              threw |-> ""]

\* Variant of removeFromCart that takes the item out whatever its quantity.
removeFromCart_AlwaysSplices(items, id) ==
    LET itemIndex == findIndex(items, id)
    IN  IF ~HasItemAt(items, itemIndex)
        THEN [items |-> items, threw |-> TypeError]
        ELSE [items |-> splice1(items, itemIndex), threw |-> ""]

\* Variant of removeFromCart that compares the quantity with 0, so an item
\* of quantity 1 is counted down and stays.
removeFromCart_SplicesAtZero(items, id) ==
    LET itemIndex == findIndex(items, id)
    IN  IF ~HasItemAt(items, itemIndex)
        THEN [items |-> items, threw |-> TypeError]
        ELSE IF items[itemIndex + 1].quantity = 0
        THEN [items |-> splice1(items, itemIndex), threw |-> ""]
        ELSE [items |-> [items EXCEPT ![itemIndex + 1].quantity = @ - 1],
              threw |-> ""]

\* reducers.removeFromCart(state, action): the items after it, and what it
\* threw.  state.items[itemIndex] is undefined when itemIndex is -1, and
\* reading its quantity throws before anything is changed.
removeFromCart(items, id) ==
    LET itemIndex == findIndex(items, id)
    IN  IF ~HasItemAt(items, itemIndex)
        THEN [items |-> items, threw |-> TypeError]
        ELSE IF items[itemIndex + 1].quantity = 1
        THEN [items |-> splice1(items, itemIndex), threw |-> ""]
        ELSE [items |-> [items EXCEPT ![itemIndex + 1].quantity = @ - 1],
              threw |-> ""]

\* cartSlice.reducer under the key cart of the store: the case reducer of
\* the action's type
cartReducer(cart, action) ==
    IF action.type = "cart/addToCart"
    THEN addToCart(cart.items, action.payload)
    ELSE IF action.type = "cart/removeFromCart"
    THEN removeFromCart(cart.items, action.payload)
    ELSE [items |-> cart.items, threw |-> ""]

\* store.dispatch(action): the store holds the reducer's result, or what it
\* held when the reducer threw
storeDispatch(action) ==
    LET result == cartReducer(store.cart, action)
    IN  /\ store' = IF result.threw = ""
                    THEN [cart |-> [items |-> result.items]]
                    ELSE store
        /\ cartFault' = result.threw
        /\ cartPrev' = store
        /\ cartLast' = action
        /\ cartPrev2' = cartPrev
        /\ cartLast2' = cartLast
        /\ cartCount' =
               IF result.threw # "" THEN cartCount
               ELSE IF action.type = "cart/addToCart"
               THEN [cartCount EXCEPT ![action.payload.id] = @ + 1]
               ELSE IF action.type = "cart/removeFromCart"
               THEN [cartCount EXCEPT ![action.payload] = @ - 1]
               ELSE cartCount
        /\ UNCHANGED <<timersVars, trace, heapVars, httpVars, formVars,
                       goalVars>>

\* dispatch(addToCart(payload))
DispatchAddToCart ==
    \E payload \in CartPayloads :
        /\ \A i \in 1 .. Len(store.cart.items) :
              store.cart.items[i].id = payload.id
                  => store.cart.items[i].quantity < MaxQuantity
        /\ storeDispatch([type |-> "cart/addToCart", payload |-> payload])

\* dispatch(removeFromCart(id))
DispatchRemoveFromCart ==
    \E id \in CartIds :
        storeDispatch([type |-> "cart/removeFromCart", payload |-> id])

-----------------------------------------------------------------------------
Init ==
    /\ store = storeInitialState
    /\ cartPrev = storeInitialState
    /\ cartLast = NoAction
    /\ cartFault = ""
    /\ cartPrev2 = storeInitialState
    /\ cartLast2 = NoAction
    /\ cartCount = [id \in CartIds |-> 0]
    /\ trace = <<>>
    /\ heapObjs = <<[isRunning |-> initialState.isRunning, timers |-> 1]>>
    /\ heapArrs = <<initialState.timers>>
    /\ heapCur = 1
    /\ heapHeld = NotHeld
    /\ getCalls = [c \in CallIds |-> NotCalledGet]
    /\ formProps = NotRendered
    /\ formValues = [f \in FieldIds |-> ""]
    /\ formLog = <<>>
    /\ formAtSubmit = [f \in FieldIds |-> ""]
    /\ formSubmits = 0
    /\ formSaves = 0
    /\ goalValues = [goal |-> "", summary |-> ""]
    /\ goalLog = <<>>
    /\ goalAtSubmit = [goal |-> "", summary |-> ""]
    /\ goalCalls = <<>>
    /\ provided = FALSE
    /\ state = initialState
    /\ ctx = NullCtx
    /\ hook = NotCalled
    /\ snapshot = initialState
    /\ listeners = <<>>
    /\ pc = "idle"
    /\ pending = <<>>
    /\ notified = <<>>
    /\ prev = initialState
    /\ lastAction = NoAction
    /\ subscribed = {}

\* <TimersContextProvider> is rendered: useReducer(timersReducer, initialState)
RenderProvider ==
    /\ ~provided
    /\ provided' = TRUE
    /\ state' = initialState
    /\ ctx' = ProviderValue(initialState)
    /\ UNCHANGED <<hook, snapshot, listeners, pc, pending, notified, prev,
                   lastAction, subscribed>>

\* A consumer component renders and calls useTimersContext()
CallUseTimersContext ==
    /\ pc = "idle"
    /\ hook' = useTimersContext(ctx)
    /\ UNCHANGED <<provided, state, ctx, snapshot, listeners, pc, pending,
                   notified, prev, lastAction, subscribed>>

-----------------------------------------------------------------------------
(* The consumer surface: dispatch, getState, subscribe *)

ListenerIds == 1 .. MaxListeners

Range(seq) == {seq[i] : i \in 1 .. Len(seq)}

Remove(seq, x) == SelectSeq(seq, LAMBDA y : y # x)

ListenersOf(notes) == [i \in 1 .. Len(notes) |-> notes[i].listener]

\* Variant of dispatch that skips the listener subscribed first.
dispatch_SkipsFirstListener(action) ==
    /\ provided
    /\ pc = "idle"
    /\ action.type = "ADD_TIMER" => Len(state.timers) < MaxTimers
    /\ state' = timersReducer(state, action)
    /\ ctx' = ProviderValue(state')
    /\ prev' = state
    /\ lastAction' = action
    /\ pending' = IF listeners = <<>> THEN <<>> ELSE Tail(listeners)
    /\ notified' = <<>>
    /\ pc' = "notifying"
    /\ hook' = IF hook.outcome = "none" THEN hook ELSE useTimersContext(ctx')
    /\ UNCHANGED <<provided, snapshot, listeners, subscribed>>

\* dispatch(action): apply the transition function to (current state,
\* action), replace the current state with the result, and start notifying
\* the listeners subscribed at this moment.  The provider renders again
\* with the new timersState, and with it the consumer that reads the
\* context.
dispatch(action) ==
    /\ provided
    /\ pc = "idle"
    /\ action.type = "ADD_TIMER" => Len(state.timers) < MaxTimers
    /\ state' = timersReducer(state, action)
    /\ ctx' = ProviderValue(state')
    /\ prev' = state
    /\ lastAction' = action
    /\ pending' = listeners
    /\ notified' = <<>>
    /\ pc' = "notifying"
    /\ hook' = IF hook.outcome = "none" THEN hook ELSE useTimersContext(ctx')
    /\ UNCHANGED <<provided, snapshot, listeners, subscribed>>

\* The running dispatch calls the next listener with the new state.
Notify ==
    /\ pc = "notifying"
    /\ pending # <<>>
    /\ notified' = Append(notified, [listener |-> Head(pending),
                                     state    |-> state])
    /\ pending' = Tail(pending)
    /\ UNCHANGED <<provided, state, ctx, hook, snapshot, listeners, pc, prev,
                   lastAction, subscribed>>

\* Variant of DispatchReturn that does not wait for the listeners.
DispatchReturn_Early ==
    /\ pc = "notifying"
    /\ pc' = "idle"
    /\ notified' = <<>>
    /\ pending' = <<>>
    /\ UNCHANGED <<provided, state, ctx, hook, snapshot, listeners,
                   prev, lastAction, subscribed>>

\* dispatch returns once every listener has been called.
DispatchReturn ==
    /\ pc = "notifying"
    /\ pending = <<>>
    /\ pc' = "idle"
    /\ notified' = <<>>
    /\ UNCHANGED <<provided, state, ctx, hook, snapshot, listeners, pending,
                   prev, lastAction, subscribed>>

\* A caller that holds the dispatch function dispatches any action object.
DispatchAny == \E action \in AnyAction : dispatch(action)

\* Variant of getState that also calls the listeners.
getState_Notifies ==
    /\ provided
    /\ pc = "idle"
    /\ snapshot' = state
    /\ pending' = listeners
    /\ notified' = <<>>
    /\ pc' = "notifying"
    /\ UNCHANGED <<provided, state, ctx, hook, listeners, prev, lastAction,
                   subscribed>>

\* getState(): the current snapshot
getState ==
    /\ provided
    /\ snapshot' = state
    /\ UNCHANGED <<provided, state, ctx, hook, listeners, pc, pending,
                   notified, prev, lastAction, subscribed>>

\* subscribe(listener): registered after the listeners already subscribed
subscribe(l) ==
    /\ provided
    /\ pc = "idle"
    /\ l \notin Range(listeners)
    /\ listeners' = Append(listeners, l)
    /\ subscribed' = subscribed \cup {l}
    /\ UNCHANGED <<provided, state, ctx, hook, snapshot, pc, pending,
                   notified, prev, lastAction>>

\* The capability subscribe returned: removes that listener.  Listeners are
\* called back one at a time by the dispatch that runs; what a listener that
\* subscribes, unsubscribes or dispatches from inside its own notification
\* gets is left open, and is not part of this model.
unsubscribe(l) ==
    /\ pc = "idle"
    /\ l \in Range(listeners)
    /\ listeners' = Remove(listeners, l)
    /\ subscribed' = subscribed \ {l}
    /\ UNCHANGED <<provided, state, ctx, hook, snapshot, pc, pending,
                   notified, prev, lastAction>>

-----------------------------------------------------------------------------
(* The intent operations the provider puts into the context value *)

addTimer(timerData) ==
    /\ ctx # NullCtx
    /\ dispatch([type |-> "ADD_TIMER", payload |-> timerData])

\* Variant of startTimers that writes the flag instead of dispatching.
startTimers_WritesState ==
    /\ ctx # NullCtx
    /\ pc = "idle"
    /\ state' = [state EXCEPT !.isRunning = TRUE]
    /\ ctx' = ProviderValue(state')
    /\ hook' = IF hook.outcome = "none" THEN hook ELSE useTimersContext(ctx')
    /\ UNCHANGED <<provided, snapshot, listeners, pc, pending, notified,
                   prev, lastAction, subscribed>>

startTimers ==
    /\ ctx # NullCtx
    /\ dispatch([type |-> "START_TIMERS"])

\* Variant of stopTimers that dispatches the action of startTimers.
stopTimers_DispatchesStart ==
    /\ ctx # NullCtx
    /\ dispatch([type |-> "START_TIMERS"])

stopTimers ==
    /\ ctx # NullCtx
    /\ dispatch([type |-> "STOP_TIMERS"])

\* Header: the button's onClick is
\* timersCtx.isRunning ? timersCtx.startTimers : timersCtx.stopTimers
HeaderClick ==
    /\ ctx # NullCtx
    /\ IF ctx.isRunning THEN startTimers ELSE stopTimers

\* Header: the button reads "Stop Timers" or "Start Timers"
HeaderLabel ==
    IF ctx.isRunning THEN "Stop Timers" ELSE "Start Timers"

-----------------------------------------------------------------------------
\* A step of the timers container leaves the store as it is.
TimersStep(A) ==
    A /\ UNCHANGED <<cartVars, trace, heapVars, httpVars, formVars, goalVars>>

Next ==
    \/ TimersStep(RenderProvider)
    \/ TimersStep(CallUseTimersContext)
    \/ \E timerData \in Payloads : TimersStep(addTimer(timerData))
    \/ TimersStep(startTimers)
    \/ TimersStep(stopTimers)
    \/ TimersStep(HeaderClick)
    \/ TimersStep(DispatchAny)
    \/ TimersStep(Notify)
    \/ TimersStep(DispatchReturn)
    \/ TimersStep(getState)
    \/ \E l \in ListenerIds : TimersStep(subscribe(l))
    \/ \E l \in ListenerIds : TimersStep(unsubscribe(l))

Spec == Init /\ [][Next]_vars

\* The store with the cart slice
CartNext ==
    \/ DispatchAddToCart
    \/ DispatchRemoveFromCart

SpecCart == Init /\ [][CartNext]_vars

\* The two containers side by side: the timers context with the intents
\* of its run-flag, and the store
ContainersNext ==
    \/ TimersStep(RenderProvider)
    \/ TimersStep(CallUseTimersContext)
    \/ TimersStep(startTimers)
    \/ TimersStep(stopTimers)
    \/ TimersStep(DispatchReturn)
    \/ DispatchAddToCart
    \/ DispatchRemoveFromCart

SpecContainers == Init /\ [][ContainersNext]_vars

\* The timers container with the sequence of dispatched actions recorded
ReplayDispatch ==
    \E action \in AnyAction :
        /\ Len(trace) < MaxReplay
        /\ dispatch(action)
        /\ trace' = Append(trace, action)
        /\ UNCHANGED <<cartVars, heapVars, httpVars, formVars, goalVars>>

ReplayNext ==
    \/ TimersStep(RenderProvider)
    \/ ReplayDispatch
    \/ TimersStep(DispatchReturn)

SpecReplay == Init /\ [][ReplayNext]_vars

\* The timers reducer on objects
HeapNext ==
    \/ HeapDispatch
    \/ HeapGetState

SpecHeap == Init /\ [][HeapNext]_vars

\* The calls of get
HttpNext ==
    \/ GetCall
    \/ FetchResolves
    \/ FetchRejects
    \/ JsonSettles

SpecHttp == Init /\ [][HttpNext]_vars

\* The Form under App
FormNext ==
    \/ RenderForm
    \/ TypeIntoForm
    \/ SubmitForm

SpecForm == Init /\ [][FormNext]_vars

\* NewGoal
GoalNext ==
    \/ TypeIntoGoal
    \/ SubmitGoal

SpecGoal == Init /\ [][GoalNext]_vars

-----------------------------------------------------------------------------
(* Properties of the transition function, read off the last dispatch *)

Dispatched == lastAction # NoAction

IsPrefix(s, t) == Len(s) <= Len(t) /\ SubSeq(t, 1, Len(s)) = s

\* C1: whatever the state a START_TIMERS dispatch started from, the state
\* it produced has the run-flag true and the same item sequence.
C1_StartSetsRunFlag ==
    lastAction.type = "START_TIMERS" =>
        /\ state.isRunning = TRUE
        /\ state.timers = prev.timers

\* A START_TIMERS dispatch that started with the flag false and with items
\* in the list has returned.
C1_Witness ==
    /\ lastAction.type = "START_TIMERS"
    /\ pc = "idle"
    /\ prev.isRunning = FALSE
    /\ Len(prev.timers) = MaxTimers

\* C2: whatever the state a STOP_TIMERS dispatch started from, the state
\* it produced has the run-flag false and the same item sequence.
C2_StopClearsRunFlag ==
    lastAction.type = "STOP_TIMERS" =>
        /\ state.isRunning = FALSE
        /\ state.timers = prev.timers

\* A STOP_TIMERS dispatch that started with the flag true and with items in
\* the list has returned.
C2_Witness ==
    /\ lastAction.type = "STOP_TIMERS"
    /\ pc = "idle"
    /\ prev.isRunning = TRUE
    /\ Len(prev.timers) = MaxTimers

\* C3: an ADD_TIMER dispatch produces the previous item sequence, in its
\* order, followed by one item with the payload's name and duration, and
\* leaves the run-flag as it was.
C3_AddAppendsItem ==
    lastAction.type = "ADD_TIMER" =>
        /\ Len(state.timers) = Len(prev.timers) + 1
        /\ \A i \in 1 .. Len(prev.timers) : state.timers[i] = prev.timers[i]
        /\ state.timers[Len(state.timers)].name = lastAction.payload.name
        /\ state.timers[Len(state.timers)].duration
               = lastAction.payload.duration
        /\ DOMAIN state.timers[Len(state.timers)] = {"name", "duration"}
        /\ state.isRunning = prev.isRunning

\* AddItem(a) was followed by AddItem(b) from the empty sequence, and the
\* sequence is [a, b].
C3_Witness ==
    /\ lastAction = [type |-> "ADD_TIMER",
                     payload |-> [name |-> "b", duration |-> 3]]
    /\ prev.timers = <<[name |-> "a", duration |-> 5]>>
    /\ state.timers = <<[name |-> "a", duration |-> 5],
                        [name |-> "b", duration |-> 3]>>
    /\ pc = "idle"

\* C4: a dispatch of an action whose type is none of START_TIMERS,
\* STOP_TIMERS, ADD_TIMER produces the state it started from.
C4_UnrecognizedIsIdentity ==
    (Dispatched /\ lastAction.type
                     \notin {"START_TIMERS", "STOP_TIMERS", "ADD_TIMER"}) =>
        state = prev

\* A dispatch of an unrecognized action, started from a state that differs
\* from the initial one in the flag and in the items, has returned.
C4_Witness ==
    /\ lastAction \in Unrecognized
    /\ pc = "idle"
    /\ prev.isRunning = FALSE
    /\ Len(prev.timers) = MaxTimers
    /\ state = prev

-----------------------------------------------------------------------------
(* The accessor *)

\* C6: a call of useTimersContext that reads a null context value raises
\* the fault "TimersContext is null ..." and yields no value; a call that
\* reads a provided value returns that value and raises nothing.
C6_AccessorFailsFastOnNull ==
    [][hook' # hook =>
          IF ctx' = NullCtx
          THEN /\ hook'.outcome = "threw"
               /\ hook'.error # ""
               /\ hook'.value = NullCtx
          ELSE /\ hook'.outcome = "returned"
               /\ hook'.error = ""
               /\ hook'.value = ctx']_vars

\* The consumer called the accessor with no provider above it.
C6_Witness ==
    /\ ~provided
    /\ ctx = NullCtx
    /\ hook.outcome = "threw"

-----------------------------------------------------------------------------
(* Notification *)

NoDuplicates(seq) ==
    \A i, j \in 1 .. Len(seq) : seq[i] = seq[j] => i = j

\* C7: the running dispatch notifies the listeners subscribed when it
\* started, each once, with the new state, in subscription order (a new
\* subscription goes after the existing ones, an unsubscription keeps the
\* order of the others), and no listener that has unsubscribed.
C7_ListenersNotifiedOnceInOrder ==
    /\ [](/\ pc = "notifying" =>
                 /\ ListenersOf(notified) \o pending = listeners
                 /\ Range(listeners) = subscribed
          /\ NoDuplicates(ListenersOf(notified))
          /\ \A i \in 1 .. Len(notified) :
                 /\ notified[i].state = state
                 /\ notified[i].listener \in subscribed)
    /\ [][/\ \A l \in subscribed' \ subscribed :
                 listeners' = Append(listeners, l)
          /\ \A l \in subscribed \ subscribed' :
                 /\ l \notin Range(listeners')
                 /\ \E i \in 1 .. Len(listeners) :
                        /\ listeners[i] = l
                        /\ listeners' = SubSeq(listeners, 1, i - 1)
                               \o SubSeq(listeners, i + 1, Len(listeners))
          /\ (pc = "notifying" /\ pc' = "idle") =>
                 ListenersOf(notified) = listeners]_vars

\* A dispatch has notified every one of MaxListeners listeners, which had
\* subscribed in descending order of their ids, after a change of state.
C7_Witness ==
    /\ pc = "notifying"
    /\ pending = <<>>
    /\ Len(notified) = MaxListeners
    /\ notified[1].listener = MaxListeners
    /\ state # prev

\* C8: while a dispatch runs no other transition replaces the state, every
\* notification carries the result of the transition of that dispatch, and
\* the dispatch returns only after the state was replaced and every
\* subscribed listener was notified.
C8_DispatchRunsToCompletion ==
    /\ [][/\ pc = "notifying" =>
                 /\ state' = state
                 /\ prev' = prev
                 /\ lastAction' = lastAction
          /\ (pc = "notifying" /\ pc' = "idle") =>
                 /\ pending = <<>>
                 /\ Range(ListenersOf(notified)) = subscribed
                 /\ state = timersReducer(prev, lastAction)]_vars
    /\ [](\A i \in 1 .. Len(notified) :
              notified[i].state = timersReducer(prev, lastAction))

\* A second dispatch is under way: its transition is done, one listener
\* has been notified and another is still waiting.
C8_Witness ==
    /\ pc = "notifying"
    /\ Len(notified) >= 1
    /\ Len(pending) >= 1
    /\ state # prev
    /\ prev # initialState

-----------------------------------------------------------------------------
(* The state changes by dispatch only *)

DispatchStep == pc = "idle" /\ pc' = "notifying"

\* C9: a step that changes the state is a dispatch, and the new state is
\* the transition function applied once to the state before and the
\* dispatched action; getState, subscribe, unsubscribe, reading the
\* context value, notifying and returning leave the state as it is.
C9_StateChangesOnlyByDispatch ==
    [][/\ state' # state => DispatchStep
       /\ DispatchStep =>
              /\ lastAction' \in AnyAction
              /\ state' = timersReducer(state, lastAction')]_vars

\* With a listener subscribed, a snapshot read and the context value read,
\* the state differs from the initial one in the flag and in the items.
C9_Witness ==
    /\ listeners # <<>>
    /\ hook.outcome = "returned"
    /\ snapshot # initialState
    /\ state.isRunning = FALSE
    /\ Len(state.timers) = MaxTimers

\* C10: no step removes, reorders or alters an item: the item sequence
\* before a step is a prefix of the item sequence after it.
C10_ItemsAppendOnly ==
    [][IsPrefix(state.timers, state'.timers)]_vars

\* The list is full and a later dispatch of another kind has left it as it
\* was.
C10_Witness ==
    /\ Len(state.timers) = MaxTimers
    /\ lastAction.type = "STOP_TIMERS"
    /\ prev.timers = state.timers
    /\ pc = "idle"

-----------------------------------------------------------------------------
(* Snapshots *)

\* C11: the object a consumer was handed holds the run-flag and the items
\* it held when it was handed out, whatever was dispatched since; a
\* dispatch changes no object there is, and a dispatch after which the
\* state has another value has put a new object in its place; the value of
\* the object in place is what timersReducer gives for some action.
C11_SnapshotsAreNeverModified ==
    /\ [](heapHeld.ref # 0 =>
              Deref(heapObjs, heapArrs, heapHeld.ref) = heapHeld.value)
    /\ [][/\ \A ref \in 1 .. Len(heapObjs) :
                 Deref(heapObjs', heapArrs', ref)
                     = Deref(heapObjs, heapArrs, ref)
          /\ Deref(heapObjs', heapArrs', heapCur')
                 # Deref(heapObjs, heapArrs, heapCur)
                 => heapCur' \notin 1 .. Len(heapObjs)
          /\ \E action \in AnyAction \cup {NoAction} :
                 Deref(heapObjs', heapArrs', heapCur')
                     = timersReducer(Deref(heapObjs, heapArrs, heapCur),
                                     action)]_vars

\* The consumer holds the initial state object, and since then the flag
\* was cleared and an item added.
C11_Witness ==
    /\ heapHeld.ref = 1
    /\ heapHeld.value = initialState
    /\ Deref(heapObjs, heapArrs, heapCur).isRunning = FALSE
    /\ Len(Deref(heapObjs, heapArrs, heapCur).timers) >= 1

-----------------------------------------------------------------------------
(* The container as a whole *)

\* C12: in every reachable state the transition function, given any of the
\* actions (START_TIMERS, STOP_TIMERS, ADD_TIMER with an item, or one of
\* another type), throws nothing and returns a boolean run-flag with a
\* sequence of items; the state the container holds is one of these.
C12_DispatchNeverFails ==
    /\ IsTimersState(state)
    /\ \A action \in AnyAction :
          /\ ~timersReducerThrows(action)
          /\ IsTimersState(timersReducer(state, action))

\* An item whose payload carried one property more was appended as the
\* last of a full list, and the dispatch has returned.
C12_Witness ==
    /\ lastAction.type = "ADD_TIMER"
    /\ "id" \in DOMAIN lastAction.payload
    /\ Len(state.timers) = MaxTimers
    /\ pc = "idle"

\* C13: a getState call returns the current state and leaves the state,
\* the subscribers and their order, and the notifications as they are; as
\* long as no dispatch changes the state, a snapshot that equals it is
\* what every further call returns.
C13_GetStateHasNoSideEffects ==
    [][/\ getState =>
              /\ snapshot' = state
              /\ UNCHANGED <<state, listeners, subscribed, pending,
                             notified, pc>>
       /\ snapshot' # snapshot =>
              /\ snapshot' = state
              /\ UNCHANGED <<state, listeners, subscribed, pending,
                             notified, pc>>
       /\ (snapshot = state /\ state' = state) => snapshot' = snapshot]_vars

\* Between two dispatches, with every listener subscribed, the snapshot
\* last read is the current state, which is not the initial one.
C13_Witness ==
    /\ pc = "idle"
    /\ Len(listeners) = MaxListeners
    /\ snapshot = state
    /\ state.isRunning = FALSE
    /\ state.timers # <<>>

\* C14: startTimers, stopTimers and addTimer(item) are each one dispatch,
\* of START_TIMERS, of STOP_TIMERS and of ADD_TIMER with that item as
\* payload; the isRunning and timers of the context value are those of the
\* reducer state.
C14_IntentsRefineTransition ==
    /\ [](ctx # NullCtx =>
              /\ ctx.isRunning = state.isRunning
              /\ ctx.timers = state.timers)
    /\ [][/\ startTimers =>
                 /\ DispatchStep
                 /\ lastAction' = [type |-> "START_TIMERS"]
                 /\ state' = timersReducer(state, lastAction')
          /\ stopTimers =>
                 /\ DispatchStep
                 /\ lastAction' = [type |-> "STOP_TIMERS"]
                 /\ state' = timersReducer(state, lastAction')
          /\ \A timerData \in Payloads :
                 addTimer(timerData) =>
                     /\ DispatchStep
                     /\ lastAction' = [type |-> "ADD_TIMER",
                                       payload |-> timerData]
                     /\ state' = timersReducer(state, lastAction')]_vars

\* The consumer holds a context value that shows the stopped flag and the
\* full list, after an addTimer.
C14_Witness ==
    /\ hook.outcome = "returned"
    /\ hook.value = ctx
    /\ ctx.isRunning = FALSE
    /\ Len(ctx.timers) = MaxTimers
    /\ lastAction.type = "ADD_TIMER"

\* C15: a container no action was dispatched to holds its initial value:
\* the timers container the run-flag true with no items, the store an
\* empty item list under its one key, cart.
C15_InitialValueUntilFirstDispatch ==
    /\ ~Dispatched =>
          /\ state.isRunning = TRUE
          /\ state.timers = <<>>
    /\ cartLast = NoAction =>
          /\ DOMAIN store = {"cart"}
          /\ DOMAIN store.cart = {"items"}
          /\ store.cart.items = <<>>

\* The provider is rendered and its context value read, the store has
\* items in its cart, and nothing was dispatched to the timers container.
C15_Witness ==
    /\ provided
    /\ hook.outcome = "returned"
    /\ ~Dispatched
    /\ cartLast # NoAction
    /\ Len(store.cart.items) >= 2

Max(S) == CHOOSE x \in S : \A y \in S : y <= x

\* The run-flag a sequence of actions leaves: that of its last START_TIMERS
\* or STOP_TIMERS, and true, the initial value, when it holds neither
RunFlagOf(actions) ==
    LET flags == {i \in 1 .. Len(actions) :
                     actions[i].type \in {"START_TIMERS", "STOP_TIMERS"}}
    IN  IF flags = {} THEN TRUE
        ELSE actions[Max(flags)].type = "START_TIMERS"

\* The names and durations of the payloads of its ADD_TIMER actions
ItemsOf(actions) ==
    LET adds == SelectSeq(actions, LAMBDA a : a.type = "ADD_TIMER")
    IN  [i \in 1 .. Len(adds) |->
            [name |-> adds[i].payload.name,
             duration |-> adds[i].payload.duration]]

\* C16: after the actions dispatched so far the run-flag is that of the
\* last START_TIMERS or STOP_TIMERS among them (the initial value when
\* there is none) and the items are the payloads of the ADD_TIMER actions
\* in dispatch order; START_TIMERS and STOP_TIMERS are idempotent and
\* commute with ADD_TIMER.
C16_StateIsFoldOfActions ==
    /\ state.isRunning = RunFlagOf(trace)
    /\ state.timers = ItemsOf(trace)
    /\ \A a \in {[type |-> "START_TIMERS"], [type |-> "STOP_TIMERS"]} :
          /\ timersReducer(timersReducer(state, a), a)
                 = timersReducer(state, a)
          /\ \A p \in Payloads :
                 LET add == [type |-> "ADD_TIMER", payload |-> p]
                 IN  timersReducer(timersReducer(state, a), add)
                        = timersReducer(timersReducer(state, add), a)

\* STOP_TIMERS, ADD_TIMER, START_TIMERS and an unrecognized action were
\* dispatched in this order.
C16_Witness ==
    /\ Len(trace) = 4
    /\ trace[1].type = "STOP_TIMERS"
    /\ trace[2].type = "ADD_TIMER"
    /\ trace[3].type = "START_TIMERS"
    /\ trace[4] \in Unrecognized
    /\ pc = "idle"

\* C17: a click on the Header button inverts the run-flag: from true,
\* where the button reads "Stop Timers", to false, and from false, where
\* it reads "Start Timers", to true.
C17_ClickToggles ==
    [][HeaderClick =>
          /\ state.isRunning = (HeaderLabel = "Stop Timers")
          /\ state'.isRunning = ~state.isRunning]_vars

-----------------------------------------------------------------------------
(* The cart slice, read off the last dispatch to the store *)

Holds(items, id) == \E i \in 1 .. Len(items) : items[i].id = id

\* C18: addToCart of an id the cart holds adds 1 to the quantity of that
\* item and changes nothing else; addToCart of an id it does not hold puts
\* an item with the payload's id, title and price and quantity 1 after the
\* items there were.
C18_AddToCart ==
    cartLast.type = "cart/addToCart" =>
        LET old == cartPrev.cart.items
            new == store.cart.items
            p   == cartLast.payload
        IN  IF Holds(old, p.id)
            THEN /\ Len(new) = Len(old)
                 /\ \A i \in 1 .. Len(old) :
                        IF old[i].id = p.id
                        THEN /\ new[i].quantity = old[i].quantity + 1
                             /\ new[i].id = old[i].id
                             /\ new[i].title = old[i].title
                             /\ new[i].price = old[i].price
                        ELSE new[i] = old[i]
            ELSE /\ Len(new) = Len(old) + 1
                 /\ \A i \in 1 .. Len(old) : new[i] = old[i]
                 /\ new[Len(new)] = [id |-> p.id, title |-> p.title,
                                     price |-> p.price, quantity |-> 1]

\* The product in the middle of three items was added once more, with a
\* payload whose price is not the price of the item in the cart.
C18_Witness ==
    /\ cartLast = [type |-> "cart/addToCart",
                   payload |-> [id |-> "p1", title |-> "Shirt",
                                price |-> 12]]
    /\ Len(cartPrev.cart.items) = 3
    /\ cartPrev.cart.items[2] = [id |-> "p1", title |-> "Shirt",
                                 price |-> 10, quantity |-> 1]
    /\ store.cart.items[2].quantity = 2

\* C19: removeFromCart of an id the cart holds takes the item out when its
\* quantity is 1, the other items keeping their order, and otherwise
\* subtracts 1 from its quantity where it stands; the other items are
\* unchanged.
C19_RemoveFromCart ==
    (/\ cartLast.type = "cart/removeFromCart"
     /\ Holds(cartPrev.cart.items, cartLast.payload)) =>
        LET old == cartPrev.cart.items
            new == store.cart.items
            k   == CHOOSE i \in 1 .. Len(old) : old[i].id = cartLast.payload
        IN  /\ cartFault = ""
            /\ IF old[k].quantity = 1
               THEN /\ Len(new) = Len(old) - 1
                    /\ \A i \in 1 .. Len(new) :
                           new[i] = IF i < k THEN old[i] ELSE old[i + 1]
               ELSE /\ Len(new) = Len(old)
                    /\ \A i \in 1 .. Len(old) :
                           new[i] = IF i = k
                                    THEN [old[i] EXCEPT !.quantity = @ - 1]
                                    ELSE old[i]

\* The first of three items had quantity 1 and was removed; the two after
\* it are still there, in their order.
C19_Witness ==
    /\ cartLast.type = "cart/removeFromCart"
    /\ Len(cartPrev.cart.items) = 3
    /\ cartPrev.cart.items[1].id = cartLast.payload
    /\ cartPrev.cart.items[1].quantity = 1
    /\ cartPrev.cart.items[3].quantity = MaxQuantity
    /\ store.cart.items = SubSeq(cartPrev.cart.items, 2, 3)

\* C20: removeFromCart of an id the cart does not hold finds index -1,
\* throws when it reads the quantity of the item that is not there, and
\* leaves the store as it was.
C20_RemoveMissingThrows ==
    (/\ cartLast.type = "cart/removeFromCart"
     /\ ~Holds(cartPrev.cart.items, cartLast.payload)) =>
        /\ findIndex(cartPrev.cart.items, cartLast.payload) = -1
        /\ cartFault = TypeError
        /\ store = cartPrev

\* removeFromCart of a product that is not among the items of a cart that
\* is not empty has thrown.
C20_Witness ==
    /\ cartLast = [type |-> "cart/removeFromCart", payload |-> "p2"]
    /\ Len(cartPrev.cart.items) = 2
    /\ ~Holds(cartPrev.cart.items, "p2")
    /\ cartFault = TypeError

-----------------------------------------------------------------------------
(* The cart slice, over every sequence of dispatches *)

Ids(items) == [i \in 1 .. Len(items) |-> items[i].id]

\* C21: every item of a cart reached from the empty cart by addToCart and
\* removeFromCart dispatches has quantity 1 or more.
C21_QuantitiesArePositive ==
    \A i \in 1 .. Len(store.cart.items) : store.cart.items[i].quantity >= 1

\* removeFromCart of an item of quantity 1 has taken it out, and what is
\* left is an item counted down to 1 before and one at the largest quantity.
C21_Witness ==
    /\ cartLast.type = "cart/removeFromCart"
    /\ cartFault = ""
    /\ cartLast2.type = "cart/removeFromCart"
    /\ cartLast2.payload # cartLast.payload
    /\ Len(cartPrev2.cart.items) = 3
    /\ Len(store.cart.items) = 2
    /\ \E i \in 1 .. 3 : /\ cartPrev2.cart.items[i].id = cartLast2.payload
                          /\ cartPrev2.cart.items[i].quantity = 2
    /\ \E i \in 1 .. 2 : store.cart.items[i].quantity = 1
    /\ \E i \in 1 .. 2 : store.cart.items[i].quantity = MaxQuantity

\* C22: no two items of a cart reached from the empty cart by addToCart and
\* removeFromCart dispatches have the same id.
C22_IdsAreUnique == NoDuplicates(Ids(store.cart.items))

\* addToCart of an id the cart held, at another price than the item's, has
\* left three items of three ids.
C22_Witness ==
    /\ cartLast.type = "cart/addToCart"
    /\ Holds(cartPrev.cart.items, cartLast.payload.id)
    /\ \E i \in 1 .. Len(store.cart.items) :
           /\ store.cart.items[i].id = cartLast.payload.id
           /\ store.cart.items[i].price # cartLast.payload.price
    /\ Len(store.cart.items) = 3
    /\ Cardinality(Range(Ids(store.cart.items))) = 3

\* C23: addToCart(payload) and then removeFromCart(payload.id) leave the
\* store as it was before the two dispatches: the same items in the same
\* order with the same quantities, and the removal does not throw.
C23_AddThenRemoveRestores ==
    (/\ cartLast2.type = "cart/addToCart"
     /\ cartLast.type = "cart/removeFromCart"
     /\ cartLast.payload = cartLast2.payload.id) =>
        /\ cartFault = ""
        /\ store = cartPrev2

\* The pair was dispatched on a cart of two items, the first of them the
\* payload's product at quantity 1 and at another price than the payload's.
C23_Witness ==
    /\ cartLast2.type = "cart/addToCart"
    /\ cartLast = [type |-> "cart/removeFromCart",
                   payload |-> cartLast2.payload.id]
    /\ Len(cartPrev2.cart.items) = 2
    /\ cartPrev2.cart.items[1].id = cartLast2.payload.id
    /\ cartPrev2.cart.items[1].quantity = 1
    /\ cartPrev2.cart.items[1].price # cartLast2.payload.price
    /\ cartPrev.cart.items[1].quantity = 2
    /\ store = cartPrev2

\* The quantity a cart holds of an id: 0 when it has no item of that id
QuantityOf(items, id) ==
    IF Holds(items, id)
    THEN items[CHOOSE i \in 1 .. Len(items) : items[i].id = id].quantity
    ELSE 0

RECURSIVE SumOfQuantities(_)
SumOfQuantities(items) ==
    IF items = <<>> THEN 0
    ELSE items[1].quantity + SumOfQuantities(Tail(items))

RECURSIVE SumOver(_, _)
SumOver(f, S) ==
    IF S = {} THEN 0
    ELSE LET x == CHOOSE y \in S : TRUE IN f[x] + SumOver(f, S \ {x})

\* C24: the quantities of the items add up to the addToCart dispatches
\* minus the removeFromCart dispatches that did not throw, and the quantity
\* of each id is the adds of that id minus its removes, the cart holding no
\* item of an id for which that is 0.
C24_QuantitiesCountDispatches ==
    /\ SumOfQuantities(store.cart.items) = SumOver(cartCount, CartIds)
    /\ \A id \in CartIds :
           /\ QuantityOf(store.cart.items, id) = cartCount[id]
           /\ Holds(store.cart.items, id) <=> cartCount[id] > 0

\* Two of one product and one of another are in the cart, after a removal
\* that took a third product out and one that threw.
C24_Witness ==
    /\ cartCount["p1"] = 2
    /\ cartCount["p2"] = 1
    /\ cartCount["p3"] = 0
    /\ cartLast2 = [type |-> "cart/removeFromCart", payload |-> "p3"]
    /\ Holds(cartPrev2.cart.items, "p3")
    /\ cartLast = [type |-> "cart/removeFromCart", payload |-> "p3"]
    /\ cartFault = TypeError
    /\ SumOfQuantities(store.cart.items) = 3

\* C25: addToCart of an id the cart holds leaves the ids where they are,
\* addToCart of an id it does not hold puts that id after the others,
\* removeFromCart leaves the ids where they are or takes its id out from
\* among them, and an id taken out and added again stands last and not
\* where it stood.
C25_InsertionOrderIsKept ==
    LET old  == Ids(cartPrev.cart.items)
        new  == Ids(store.cart.items)
        old2 == Ids(cartPrev2.cart.items)
    IN  /\ cartLast.type = "cart/addToCart" =>
               new = IF Holds(cartPrev.cart.items, cartLast.payload.id)
                     THEN old
                     ELSE Append(old, cartLast.payload.id)
        /\ cartLast.type = "cart/removeFromCart" =>
               new \in {old, Remove(old, cartLast.payload)}
        /\ (/\ cartLast2.type = "cart/removeFromCart"
            /\ QuantityOf(cartPrev2.cart.items, cartLast2.payload) = 1
            /\ cartLast.type = "cart/addToCart"
            /\ cartLast.payload.id = cartLast2.payload) =>
               new = Append(Remove(old2, cartLast2.payload),
                            cartLast2.payload)

\* The first of three items was taken out and its product added again: it
\* is the third item now, behind the two that stood behind it.
C25_Witness ==
    /\ Len(cartPrev2.cart.items) = 3
    /\ cartPrev2.cart.items[1].quantity = 1
    /\ cartLast2 = [type |-> "cart/removeFromCart",
                    payload |-> cartPrev2.cart.items[1].id]
    /\ cartLast.type = "cart/addToCart"
    /\ cartLast.payload.id = cartLast2.payload
    /\ store.cart.items[3].id = cartLast2.payload
    /\ store.cart.items[1] = cartPrev2.cart.items[2]
    /\ store.cart.items[2] = cartPrev2.cart.items[3]

-----------------------------------------------------------------------------
(* get(url) *)

\* C26: a call of get whose response is not ok rejects with "Failed to fetch
\* data" and has not read the body; a call whose response is ok fulfils
\* with the parsed JSON of the body; the body is read only of a response
\* that is ok; and when fetch rejects or the body is no JSON, the call
\* rejects with that reason and gives no value.
C26_GetChecksOkBeforeParsing ==
    \A c \in CallIds :
        LET call == getCalls[c]
        IN  /\ call.bodyUsed => (call.fetched = "resolved" /\ call.response.ok)
            /\ call.pc # "done" => call.promise = Pending
            /\ call.pc = "done" =>
                   IF call.fetched = "rejected"
                   THEN /\ call.promise = Rejected(NetworkError)
                        /\ ~call.bodyUsed
                   ELSE IF ~call.response.ok
                   THEN /\ call.promise = Rejected("Failed to fetch data")
                        /\ ~call.bodyUsed
                   ELSE IF JSONParse(call.response.body).threw # ""
                   THEN call.promise = Rejected(SyntaxError)
                   ELSE /\ call.promise.state = "fulfilled"
                        /\ call.promise.value
                               = JSONParse(call.response.body).value

\* One call was answered 404 with a body that is JSON and has rejected
\* without reading it; the other was answered 200 with a page that is no
\* JSON and has rejected with the parser's error.
C26_Witness ==
    \E c, d \in CallIds :
        /\ getCalls[c].pc = "done"
        /\ getCalls[c].response = [status |-> 404, ok |-> FALSE,
                                   body |-> "[1,2]"]
        /\ getCalls[c].promise.reason = "Failed to fetch data"
        /\ ~getCalls[c].bodyUsed
        /\ getCalls[d].pc = "done"
        /\ getCalls[d].response = [status |-> 200, ok |-> TRUE,
                                   body |-> "<html>"]
        /\ getCalls[d].promise = Rejected(SyntaxError)

-----------------------------------------------------------------------------
(* Form *)

\* Where the events of one kind stand in a log
At(log, ev) == {i \in 1 .. Len(log) : log[i].ev = ev}

Before(log, ev1, ev2) == \A i \in At(log, ev1), j \in At(log, ev2) : i < j

\* C27: a submit of the Form first prevents the default submission,
\* collects the values before any reset or clear, calls onSave once, with
\* the data of the values the inputs had when the submit began, and resets
\* the form after onSave has returned; onSave has been called once per
\* submit; under handleSave of App, which clears the form during onSave,
\* every input is empty after the submit and the data onSave got is still
\* that of the values at the submit.
C27_FormSavesBeforeReset ==
    /\ [][formSubmits' # formSubmits =>
              formValues' = [f \in FieldIds |-> ""]]_vars
    /\ [](formSaves = formSubmits)
    /\ [](formSubmits > 0 =>
           /\ formLog[1].ev = "preventDefault"
           /\ Cardinality(At(formLog, "FormData")) = 1
           /\ Cardinality(At(formLog, "onSave")) = 1
           /\ Cardinality(At(formLog, "reset")) = 1
           /\ Before(formLog, "FormData", "reset")
           /\ Before(formLog, "FormData", "clear")
           /\ Before(formLog, "FormData", "onSave")
           /\ Before(formLog, "onSaveReturned", "reset")
           /\ formLog[Len(formLog)].ev = "reset"
           /\ \A i \in At(formLog, "onSave") :
                  formLog[i].data
                      = FormData(formProps.children, formAtSubmit)
           /\ formProps.onSave = "handleSave" =>
                  /\ Cardinality(At(formLog, "clear")) = 1
                  /\ Before(formLog, "onSave", "clear")
                  /\ Before(formLog, "clear", "onSaveReturned"))

\* A Form of named inputs under handleSave was submitted with both inputs
\* filled: onSave got the two values, and the inputs are empty.
C27_Witness ==
    /\ formProps = [children |-> NamedChildren, onSave |-> "handleSave"]
    /\ formSubmits = MaxSubmits
    /\ formAtSubmit = [name |-> "Ann", age |-> "41"]
    /\ \E i \in 1 .. Len(formLog) :
           formLog[i] = Event("onSave", [name |-> "Ann", age |-> "41"])
    /\ formValues = [name |-> "", age |-> ""]

-----------------------------------------------------------------------------
(* NewGoal *)

\* C28: a submit of NewGoal calls onAddGoal once, with the goal and the
\* summary the inputs held when the submit began, and leaves both inputs
\* empty; the inputs are read before the form is reset, and the reset
\* comes before the call.
C28_NewGoalPassesEnteredValues ==
    /\ [][SubmitGoal =>
              /\ goalCalls' = Append(goalCalls,
                                     [goal    |-> goalValues.goal,
                                      summary |-> goalValues.summary])
              /\ goalValues' = [goal |-> "", summary |-> ""]]_vars
    /\ [](goalLog # <<>> =>
              /\ goalLog[1].ev = "preventDefault"
              /\ Cardinality(At(goalLog, "onAddGoal")) = 1
              /\ Cardinality(At(goalLog, "reset")) = 1
              /\ Before(goalLog, "read", "reset")
              /\ Before(goalLog, "reset", "onAddGoal")
              /\ \A i \in At(goalLog, "onAddGoal") :
                     goalLog[i].data = goalAtSubmit)

\* NewGoal was submitted with both inputs filled, after a submit with
\* other values: onAddGoal got the two texts, and the inputs are empty.
C28_Witness ==
    /\ Len(goalCalls) = MaxSubmits
    /\ goalCalls[Len(goalCalls)]
           = [goal |-> "Learn TS", summary |-> "in a week"]
    /\ goalCalls[1] # goalCalls[Len(goalCalls)]
    /\ goalAtSubmit = [goal |-> "Learn TS", summary |-> "in a week"]
    /\ goalValues = [goal |-> "", summary |-> ""]
    /\ Before(goalLog, "reset", "onAddGoal")

====
